---- MODULE Spec2Model ----
(***************************************************************************)
(* Background run scheduler of langgraph_api/queue.py: the queue() loop,   *)
(* its cleanup() completion handler, the webhook tasks it spawns, the      *)
(* worker() coroutine executing one attempt of one run, and the shutdown   *)
(* sequence.  The run store (Runs.next, set_status, delete, sweep,         *)
(* Threads) lives in langgraph_storage, outside the sources at hand; it    *)
(* is modelled from its written contract.                                  *)
(*                                                                         *)
(* asyncio is modelled as interleaving: one action per stretch of code     *)
(* between two suspension points of a coroutine; a done callback is an     *)
(* action of its own enabled once the task is done.                        *)
(*                                                                         *)
(* Further sections model the SSEDecoder of js/server_sent_events.py, the  *)
(* research graph of open_deep_research/graph.py and the two streaming     *)
(* endpoints of langgraph_server.py, each with a specification of its own  *)
(* over the same variables.                                                *)
(***************************************************************************)
EXTENDS Naturals, FiniteSets, Sequences

\* ---------------------------------------------------------------- bounds
MaxConcurrency == 2     \* queue(concurrency, ...) is started with 1..MaxConcurrency
MaxRuns == 1            \* runs in the store
MaxTasks == 2           \* worker tasks ever spawned
MaxFaults == 1          \* calls that raise, and cancellations from outside
MaxCheckpoints == 2     \* checkpoint events of one pipeline
MaxEvents == 3          \* checkpoint and task-result events delivered to the callbacks
MaxEntries == 2         \* task entries of one checkpoint payload
MaxLineLen == 3         \* tokens of one line given to SSEDecoder.decode
MaxData == 1            \* data lines buffered by the decoder
MaxSections == 3        \* sections of a report plan
MaxItems == 3           \* items one event stream yields inside its loop
MaxSessions == 2        \* session ids a request can carry

\* ------------------------------------------------------ program constants
MAX_RETRY_ATTEMPTS == 3

RunIds == 1..MaxRuns
TaskIds == 1..MaxTasks

VARIABLES
    concurrency,     \* queue: the argument it was started with
    status,          \* store: status column of each run ("deleted": no record)
    attempts,        \* store: number of claims of each run so far
    kwargs,          \* store: payload of each run (temporary, webhook, auth)
    semaphore,       \* queue: semaphore._value
    WORKERS,         \* live set of worker tasks
    WEBHOOKS,        \* live set of webhook tasks (named by their worker task)
    spc,             \* queue: position of the coroutine
    last_stats_secs, \* queue: FALSE = None, TRUE = a time
    last_sweep_secs, \* queue: FALSE = None, TRUE = a time
    calc_stats,      \* queue: local of the current iteration
    do_sweep,        \* queue: local of the current iteration
    exitOwner,       \* queue: worker task that was handed the local `exit`, 0 if none
    tup,             \* queue: FALSE = None, TRUE = the (run, attempt) of the last poll
    first,           \* the loop is in its first iteration
    escaped,         \* queue: what propagates out of the while loop
    queueExc,        \* queue: what queue() ended with
    gathered,        \* tasks awaited by the gather of the shutdown
    tasks,           \* worker tasks: frame of worker() and state of the task
    hooks,           \* webhook tasks
    nextTask,        \* next unused task id
    faults,          \* number of calls that raised so far
    checkpoint,      \* worker: the nonlocal the callbacks share, as a payload
    events,          \* the events the pipeline has delivered to the callbacks
    event,           \* SSEDecoder._event
    data,            \* SSEDecoder._data
    last_event_id,   \* SSEDecoder._last_event_id
    retry,           \* SSEDecoder._retry: <<>> = None, <<n>> = the int n
    sse,             \* what the last call of decode returned
    lineKind,        \* what kind of line the last call of decode was given
    fieldSeen,       \* a field line was decoded since the last emitted event
    node,            \* graph: the node that runs next
    sections,        \* graph state: the planned sections
    section,         \* graph state: the section being built (<<>> = None)
    completed_sections, \* graph state: the sections written so far
    search_iterations,  \* graph state
    search_queries,  \* graph state: number of queries held
    source_str,      \* graph state: FALSE = "", TRUE = formatted sources
    report_sections_from_research, \* graph state: FALSE = ""
    error,           \* graph state: the plan step returned an error
    graphs,          \* SessionStore._graphs: the session ids it holds
    request,         \* server: the last request received
    response,        \* server: the response to the last request
    pos,             \* event_generator: where the generator is suspended
    out,             \* event_generator: the items yielded so far
    raisedIn         \* event_generator: what the last resumption met

vars == <<concurrency, status, attempts, kwargs, semaphore, WORKERS, WEBHOOKS, spc,
          last_stats_secs, last_sweep_secs, calc_stats, do_sweep, exitOwner,
          tup, first, escaped, queueExc, gathered, tasks, hooks, nextTask,
          faults, checkpoint, events,
          event, data, last_event_id, retry, sse, lineKind, fieldSeen,
          node, sections, section, completed_sections, search_iterations,
          search_queries, source_str, report_sections_from_research, error,
          graphs, request, response, pos, out, raisedIn>>

storeVars == <<concurrency, status, attempts, kwargs>>
callbackVars == <<checkpoint, events>>
sseVars == <<event, data, last_event_id, retry, sse, lineKind, fieldSeen>>

graphVars == <<node, sections, section, completed_sections, search_iterations,
               search_queries, source_str, report_sections_from_research, error>>
serverVars == <<graphs, request, response, pos, out, raisedIn>>

\* the state of the programs other than queue() and its workers
otherVars == <<callbackVars, sseVars, graphVars, serverVars>>
loopVars == <<last_stats_secs, last_sweep_secs, calc_stats, do_sweep, exitOwner,
              tup, first>>
endVars == <<escaped, queueExc, gathered>>

\* -------------------------------------------------------------- the store
RunStatus == {"pending", "running", "success", "error", "timeout",
              "interrupted", "deleted"}

\* run["kwargs"]: the temporary flag, the webhook URL, and whether
\* config.configurable carries the langgraph_auth_* keys.
Kwargs == [temporary : BOOLEAN, webhook : BOOLEAN, auth : BOOLEAN]

\* --------------------------------------------------------- worker frames
NoTask == [pc |-> "none", run |-> 0, attempt |-> 0, checkpoint |-> 0,
           exception |-> "None", status |-> "None", raised |-> "None",
           exitOpen |-> FALSE, cancelReq |-> FALSE, outcome |-> "none",
           pipeline |-> "none",
           wrote |-> FALSE, ignored |-> FALSE, threadOp |-> "none", threadCkpt |-> 0,
           threadExc |-> "None", cleaned |-> 0]

NoHook == [pc |-> "none", status |-> "None", values |-> 0, error |-> "None",
           cancelReq |-> FALSE]

LivePc == {"created", "body", "write", "finalize", "unwind"}

Live(t) == tasks[t].pc \in LivePc
Done(t) == tasks[t].pc = "done"
HookLive(t) == hooks[t].pc = "live"

\* the tasks are followed up to the return of queue()
LoopAlive == spc # "returned"

\* a task that has been asked to cancel takes no further step of its own
Runnable(t) == LoopAlive /\ Live(t) /\ ~tasks[t].cancelReq

\* a ServerSentEvent, and the None decode returns otherwise
NoEvent == [emitted |-> FALSE, event |-> <<>>, data |-> <<>>, id |-> <<>>,
            retry |-> <<>>]

\* SSEDecoder.__init__
SSEDecoderInit ==
    /\ event = <<>>
    /\ data = <<>>
    /\ last_event_id = <<>>
    /\ retry = <<>>
    /\ sse = NoEvent
    /\ lineKind = "none"
    /\ fieldSeen = FALSE

\* research.event_generator: the state the graph is started with
initial_state ==
    /\ node = "generate_report_plan"
    /\ sections = <<>>
    /\ section = <<>>
    /\ completed_sections = <<>>
    /\ search_iterations = 0
    /\ search_queries = 0
    /\ source_str = FALSE
    /\ report_sections_from_research = FALSE
    /\ error = FALSE

NoRequest == [endpoint |-> "none", session_id |-> 0]
NoResponse == [status |-> 0, detail |-> "none"]

\* the server after import: session_store = SessionStore()
ServerStart ==
    /\ graphs = {}
    /\ request = NoRequest
    /\ response = NoResponse
    /\ pos = "idle"
    /\ out = <<>>
    /\ raisedIn = "none"

\* queue() starts over a store whose runs are pending and have been claimed
\* a number of times drawn from earlier
Start(earlier) ==
    /\ concurrency \in 1..MaxConcurrency
    /\ status = [r \in RunIds |-> "pending"]
    /\ attempts \in [RunIds -> earlier]
    /\ \E kw \in Kwargs : kwargs = [r \in RunIds |-> kw]
    /\ semaphore = concurrency
    /\ WORKERS = {}
    /\ WEBHOOKS = {}
    /\ spc = "loop"
    /\ last_stats_secs = FALSE
    /\ last_sweep_secs = FALSE
    /\ calc_stats = FALSE
    /\ do_sweep = FALSE
    /\ exitOwner = 0
    /\ tup = FALSE
    /\ first = TRUE
    /\ escaped = "None"
    /\ queueExc = "None"
    /\ gathered = {}
    /\ tasks = [t \in TaskIds |-> NoTask]
    /\ hooks = [t \in TaskIds |-> NoHook]
    /\ nextTask = 1
    /\ faults = 0
    /\ checkpoint = [none |-> TRUE, tasks |-> <<>>]
    /\ events = <<>>
    /\ SSEDecoderInit
    /\ initial_state
    /\ ServerStart

Init == Start({0, MAX_RETRY_ATTEMPTS})

\* OverCeiling with the test one attempt late
OverCeilingLate(attempt) == attempt > MAX_RETRY_ATTEMPTS + 1

\* `if attempt > MAX_RETRY_ATTEMPTS`
OverCeiling(attempt) == attempt > MAX_RETRY_ATTEMPTS

\* ------------------------------------------------------------ Runs.next
\* a pending run the store can hand out (the caps keep the model finite)
Claimable(r) ==
    /\ status[r] = "pending"
    /\ attempts[r] <= MAX_RETRY_ATTEMPTS
    /\ nextTask <= MaxTasks

\* create_task(worker(timeout, exit, run_, attempt_)): the task exists but
\* has not run yet; it owns the exit stack holding the Runs.next() scope
NewTask(r, a) ==
    [NoTask EXCEPT !.pc = "created", !.run = r, !.attempt = a, !.exitOpen = TRUE]

\* ------------------------------------------------------- queue(): the loop
\* top of an iteration up to and including `await semaphore.acquire()`
Acquire ==
    /\ spc = "loop"
    /\ semaphore > 0
    /\ \E sweepDue \in BOOLEAN, statsDue \in BOOLEAN :
        /\ do_sweep' = (~last_sweep_secs \/ sweepDue)
        /\ calc_stats' = (~last_stats_secs \/ statsDue)
        /\ last_stats_secs' = (last_stats_secs \/ calc_stats')
    /\ semaphore' = semaphore - 1
    /\ spc' = "claim"
    /\ UNCHANGED <<otherVars, storeVars, WORKERS, WEBHOOKS, last_sweep_secs, exitOwner,
                   tup, first, endVars, tasks, hooks, nextTask, faults>>

\* the flag passed to Runs.next(), computed after the acquire from the result
\* of the previous poll and from last_stats_secs as the top of this
\* iteration left it
wait == ~tup /\ last_stats_secs

\* Runs.next() yields (run, attempt): the run is marked running, the worker
\* task is created, given the done callback and added to WORKERS
Dispatch(r) ==
    /\ spc = "claim"
    /\ Claimable(r)
    /\ status' = [status EXCEPT ![r] = "running"]
    /\ attempts' = [attempts EXCEPT ![r] = @ + 1]
    /\ tasks' = [tasks EXCEPT ![nextTask] = NewTask(r, attempts[r] + 1)]
    /\ WORKERS' = WORKERS \cup {nextTask}
    /\ exitOwner' = nextTask
    /\ tup' = TRUE
    /\ nextTask' = nextTask + 1
    /\ spc' = "housekeep"
    /\ UNCHANGED <<otherVars, concurrency, kwargs, semaphore, WEBHOOKS, last_stats_secs, last_sweep_secs,
                   calc_stats, do_sweep, first, endVars, hooks, faults>>

\* Runs.next() yields None: the slot is released and the claim scope closed
NoRun ==
    /\ spc = "claim"
    /\ \A r \in RunIds : ~Claimable(r)
    /\ semaphore' = semaphore + 1
    /\ tup' = FALSE
    /\ spc' = "housekeep"
    /\ UNCHANGED <<otherVars, storeVars, WORKERS, WEBHOOKS, last_stats_secs, last_sweep_secs,
                   calc_stats, do_sweep, exitOwner, first, endVars, tasks,
                   hooks, nextTask, faults>>

\* Runs.next() yields None and closing the claim scope raises: the slot is
\* released in the else branch and again in the except clause
NoRunCloseRaises ==
    /\ spc = "claim"
    /\ \A r \in RunIds : ~Claimable(r)
    /\ faults < MaxFaults
    /\ faults' = faults + 1
    /\ semaphore' = semaphore + 2
    /\ tup' = FALSE
    /\ spc' = "handler"
    /\ UNCHANGED <<otherVars, storeVars, WORKERS, WEBHOOKS, last_stats_secs, last_sweep_secs,
                   calc_stats, do_sweep, exitOwner, first, endVars, tasks,
                   hooks, nextTask>>

\* entering Runs.next() raises: the except clause releases the slot
ClaimRaises ==
    /\ spc = "claim"
    /\ faults < MaxFaults
    /\ faults' = faults + 1
    /\ semaphore' = semaphore + 1
    /\ spc' = "handler"
    /\ UNCHANGED <<otherVars, storeVars, WORKERS, WEBHOOKS, loopVars, endVars, tasks,
                   hooks, nextTask>>

\* Runs.sweep(): a run left running by an attempt that is over goes back to
\* pending
Stale(r) ==
    /\ status[r] = "running"
    /\ \A t \in TaskIds : Live(t) => tasks[t].run # r

Sweep(st) == [r \in RunIds |-> IF Stale(r) THEN "pending" ELSE st[r]]

\* Housekeeping with a sweep that resets every run no live task holds
HousekeepingSweepsFinished ==
    /\ spc = "housekeep"
    /\ last_sweep_secs' = (last_sweep_secs \/ do_sweep)
    /\ status' = IF do_sweep
                 THEN [r \in RunIds |->
                         IF \A t \in TaskIds : Live(t) => tasks[t].run # r
                         THEN "pending" ELSE status[r]]
                 ELSE status
    /\ calc_stats' = FALSE
    /\ do_sweep' = FALSE
    /\ exitOwner' = 0
    /\ first' = FALSE
    /\ spc' = "loop"
    /\ UNCHANGED <<otherVars, concurrency, attempts, kwargs, semaphore, WORKERS, WEBHOOKS, last_stats_secs,
                   tup, endVars, tasks, hooks, nextTask, faults>>

\* the stats and sweep block of the iteration, nothing raising; the locals
\* of the iteration are dead afterwards
Housekeeping ==
    /\ spc = "housekeep"
    /\ last_sweep_secs' = (last_sweep_secs \/ do_sweep)
    /\ status' = IF do_sweep THEN Sweep(status) ELSE status
    /\ calc_stats' = FALSE
    /\ do_sweep' = FALSE
    /\ exitOwner' = 0
    /\ first' = FALSE
    /\ spc' = "loop"
    /\ UNCHANGED <<otherVars, concurrency, attempts, kwargs, semaphore, WORKERS, WEBHOOKS, last_stats_secs,
                   tup, endVars, tasks, hooks, nextTask, faults>>

\* connect(), Runs.stats() or Runs.sweep() raises: the except clause
\* releases a slot, whether or not this iteration still holds one
HousekeepingRaises ==
    /\ spc = "housekeep"
    /\ calc_stats \/ do_sweep
    /\ faults < MaxFaults
    /\ faults' = faults + 1
    /\ \E atSweep \in {FALSE, do_sweep} :
          last_sweep_secs' = (last_sweep_secs \/ atSweep)
    /\ semaphore' = semaphore + 1
    /\ spc' = "handler"
    /\ UNCHANGED <<otherVars, storeVars, WORKERS, WEBHOOKS, last_stats_secs, calc_stats,
                   do_sweep, exitOwner, tup, first, endVars, tasks, hooks, nextTask>>

\* the finally block up to the await of wait_for(gather(...)): every task
\* of WORKERS and WEBHOOKS is asked to cancel (a done task ignores it)
CancelAll(ts) ==
    [t \in TaskIds |-> IF t \in WORKERS /\ ts[t].pc \in LivePc
                       THEN [ts[t] EXCEPT !.cancelReq = TRUE] ELSE ts[t]]

\* CancelHooks with the loop over WEBHOOKS left out
CancelHooksNone(hs) == hs

CancelHooks(hs) ==
    [t \in TaskIds |-> IF t \in WEBHOOKS /\ hs[t].pc = "live"
                       THEN [hs[t] EXCEPT !.cancelReq = TRUE] ELSE hs[t]]

Gather == {<<"worker", t>> : t \in WORKERS} \cup {<<"webhook", t>> : t \in WEBHOOKS}

\* the while loop is left: its locals are dead
LoopLeft ==
    /\ last_stats_secs' = TRUE
    /\ last_sweep_secs' = TRUE
    /\ calc_stats' = FALSE
    /\ do_sweep' = FALSE
    /\ exitOwner' = 0
    /\ tup' = FALSE
    /\ first' = FALSE

\* `await exit.aclose()` of the except clause: closes the stack the local
\* `exit` names, also when a worker was handed it
Handler ==
    /\ spc = "handler"
    /\ tasks' = IF exitOwner # 0
                THEN [tasks EXCEPT ![exitOwner].exitOpen = FALSE] ELSE tasks
    /\ calc_stats' = FALSE
    /\ do_sweep' = FALSE
    /\ exitOwner' = 0
    /\ first' = FALSE
    /\ spc' = "loop"
    /\ UNCHANGED <<otherVars, storeVars, semaphore, WORKERS, WEBHOOKS, last_stats_secs,
                   last_sweep_secs, tup, endVars, hooks, nextTask, faults>>

\* the close of the except clause raises: the exception leaves the while
\* loop and the finally block runs
HandlerRaises ==
    /\ spc = "handler"
    /\ exitOwner # 0
    /\ tasks[exitOwner].exitOpen
    /\ escaped' = "Exception"
    /\ tasks' = CancelAll([tasks EXCEPT ![exitOwner].exitOpen = FALSE])
    /\ hooks' = CancelHooks(hooks)
    /\ gathered' = Gather
    /\ spc' = "draining"
    /\ LoopLeft
    /\ UNCHANGED <<otherVars, storeVars, semaphore, WORKERS, WEBHOOKS, queueExc, nextTask,
                   faults>>

\* the task running queue() is cancelled at one of its suspension points
Cancel ==
    /\ spc \in {"loop", "claim", "housekeep", "handler"}
    /\ escaped' = "CancelledError"
    /\ tasks' = CancelAll(tasks)
    /\ hooks' = CancelHooks(hooks)
    /\ gathered' = Gather
    /\ spc' = "draining"
    /\ LoopLeft
    /\ UNCHANGED <<otherVars, storeVars, semaphore, WORKERS, WEBHOOKS, queueExc, nextTask,
                   faults>>

GatheredDone(g) ==
    IF g[1] = "worker" THEN Done(g[2]) ELSE ~HookLive(g[2])

\* every gathered task is done: wait_for returns and what left the loop
\* leaves queue()
Drained ==
    /\ spc = "draining"
    /\ \A g \in gathered : GatheredDone(g)
    /\ queueExc' = escaped
    /\ spc' = "returned"
    /\ UNCHANGED <<otherVars, storeVars, semaphore, WORKERS, WEBHOOKS, loopVars, escaped,
                   gathered, tasks, hooks, nextTask, faults>>

\* SHUTDOWN_GRACE_PERIOD_SECS pass with a gathered task not done: wait_for
\* raises TimeoutError inside the finally block
GraceElapsed ==
    /\ spc = "draining"
    /\ \E g \in gathered : ~GatheredDone(g)
    /\ queueExc' = "TimeoutError"
    /\ spc' = "returned"
    /\ UNCHANGED <<otherVars, storeVars, semaphore, WORKERS, WEBHOOKS, loopVars, escaped,
                   gathered, tasks, hooks, nextTask, faults>>

\* --------------------------------------------------------------- worker()
Outcomes == {"success", "timeout", "rollback", "interrupted", "retry", "error"}

\* the exception each except clause of worker() binds
ExceptionOf(o) ==
    CASE o = "success" -> "None"
      [] o = "timeout" -> "TimeoutError"
      [] o = "rollback" -> "UserRollback"
      [] o = "interrupted" -> "UserInterrupt"
      [] o = "retry" -> "Retriable"
      [] o = "error" -> "Other"

\* StoreValue with the retriable branch writing error instead of pending
StoreValueNoRequeue(s) ==
    CASE s = "rollback" -> "deleted"
      [] s = "retry" -> "error"
      [] OTHER -> s

\* what the terminal branch with local status s writes: Runs.set_status
\* with that status, Runs.delete in the rollback branch, and "pending" in
\* the retriable branch
StoreValue(s) ==
    CASE s = "rollback" -> "deleted"
      [] s = "retry" -> "pending"
      [] OTHER -> s

\* the status the except clause chosen by an exception raised inside the
\* try block binds
BranchOf(e) ==
    CASE e = "TimeoutError" -> "timeout"
      [] e = "UserRollback" -> "rollback"
      [] e = "UserInterrupt" -> "interrupted"
      [] e = "Retriable" -> "retry"
      [] OTHER -> "error"

\* StoreErrors with the wait_for around the whole try block: the store
\* call that follows the consumption can end in the TimeoutError of the
\* per-run timeout
StoreErrorsUnderTimeout(s) ==
    CASE s = "success" -> {"Retriable", "Other", "TimeoutError"}
      [] s = "rollback" -> {"Other", "InFailedSqlTransaction"}
      [] OTHER -> {"Other"}

\* what the store call of the branch can raise; only in the try block
\* (status "success") does the kind of the exception select a clause
StoreErrors(s) ==
    CASE s = "success" -> {"Retriable", "Other"}
      [] s = "rollback" -> {"Other", "InFailedSqlTransaction"}
      [] OTHER -> {"Other"}

\* set_auth_ctx_for_run.__aexit__: with the langgraph_auth_* keys present
\* the generator is suspended inside its try block and `except Exception:
\* pass` ends it, which suppresses the exception; without them it is
\* suspended inside `except KeyError` and the exception passes through
Suppressed(e, kw) == kw.auth /\ e \notin {"None", "CancelledError"}

\* the task after exception e (or "None") leaves the `async with` block:
\* `return {...}` is reached unless the exception is still propagating;
\* raised keeps what left the block
Leave(w, e, kw) ==
    IF e = "None" \/ Suppressed(e, kw)
    THEN [w EXCEPT !.pc = "done", !.outcome = "returned", !.raised = e]
    ELSE [w EXCEPT !.pc = "done", !.outcome = "raised", !.raised = e]

\* first step of the task: the four context managers are entered
WorkerStart(t) ==
    /\ Runnable(t)
    /\ tasks[t].pc = "created"
    /\ tasks' = [tasks EXCEPT ![t].pc = "body"]
    /\ UNCHANGED <<otherVars, storeVars, semaphore, WORKERS, WEBHOOKS, spc, loopVars,
                   endVars, hooks, nextTask, faults>>

\* connect() raises (nothing entered yet), or Runs.enter() raises (the
\* exception passes set_auth_ctx_for_run); `exit` is never entered
WorkerStartRaises(t) ==
    /\ Runnable(t)
    /\ tasks[t].pc = "created"
    /\ faults < MaxFaults
    /\ faults' = faults + 1
    /\ \/ tasks' = [tasks EXCEPT ![t] = [@ EXCEPT !.pc = "done",
                                          !.outcome = "raised", !.raised = "Other"]]
       \/ tasks' = [tasks EXCEPT ![t] = Leave(@, "Other", kwargs[tasks[t].run])]
    /\ UNCHANGED <<otherVars, storeVars, semaphore, WORKERS, WEBHOOKS, spc, loopVars,
                   endVars, hooks, nextTask>>

\* attempt > MAX_RETRY_ATTEMPTS: RuntimeError, caught by `except Exception`
AttemptCeiling(t) ==
    /\ Runnable(t)
    /\ tasks[t].pc = "body"
    /\ OverCeiling(tasks[t].attempt)
    /\ tasks' = [tasks EXCEPT ![t] = [@ EXCEPT !.status = "error",
                                       !.exception = "Other", !.pc = "write"]]
    /\ UNCHANGED <<otherVars, storeVars, semaphore, WORKERS, WEBHOOKS, spc, loopVars,
                   endVars, hooks, nextTask, faults>>

\* on_checkpoint, registered for a run that is not temporary
OnCheckpoint(t) ==
    /\ Runnable(t)
    /\ tasks[t].pc = "body"
    /\ ~OverCeiling(tasks[t].attempt)
    /\ ~kwargs[tasks[t].run].temporary
    /\ tasks[t].checkpoint < MaxCheckpoints
    /\ tasks' = [tasks EXCEPT ![t].checkpoint = @ + 1]
    /\ UNCHANGED <<otherVars, storeVars, semaphore, WORKERS, WEBHOOKS, spc, loopVars,
                   endVars, hooks, nextTask, faults>>

\* wait_for(consume(stream, run_id), timeout) ends: drained, timed out, or
\* raised; the matching clause binds exception and status (pipeline keeps
\* how the consumption ended)
Consumed(t, o) ==
    /\ Runnable(t)
    /\ tasks[t].pc = "body"
    /\ ~OverCeiling(tasks[t].attempt)
    /\ tasks' = [tasks EXCEPT ![t] = [@ EXCEPT !.pipeline = o, !.status = o,
                                       !.exception = ExceptionOf(o), !.pc = "write"]]
    /\ UNCHANGED <<otherVars, storeVars, semaphore, WORKERS, WEBHOOKS, spc, loopVars,
                   endVars, hooks, nextTask, faults>>

\* Written with the `raise` of the retriable branch left out: the attempt
\* goes on to thread finalization
WrittenNoRaise(w) ==
    CASE w.status = "rollback" ->
            [w EXCEPT !.wrote = TRUE, !.pc = "finalize", !.checkpoint = 0]
      [] OTHER ->
            [w EXCEPT !.wrote = TRUE, !.pc = "finalize"]

\* Written with `checkpoint = None` in every branch
WrittenResetsCheckpoint(w) ==
    CASE w.status = "retry" ->
            [w EXCEPT !.wrote = TRUE, !.pc = "unwind", !.raised = w.exception,
                      !.checkpoint = 0]
      [] OTHER ->
            [w EXCEPT !.wrote = TRUE, !.pc = "finalize", !.checkpoint = 0]

\* Written with `checkpoint = None` of the rollback branch left out
WrittenKeepsCheckpoint(w) ==
    CASE w.status = "retry" ->
            [w EXCEPT !.wrote = TRUE, !.pc = "unwind", !.raised = w.exception]
      [] OTHER ->
            [w EXCEPT !.wrote = TRUE, !.pc = "finalize"]

\* the store call of the branch succeeds; the retriable branch re-raises,
\* the rollback branch resets the checkpoint
Written(w) ==
    CASE w.status = "retry" ->
            [w EXCEPT !.wrote = TRUE, !.pc = "unwind", !.raised = w.exception]
      [] w.status = "rollback" ->
            [w EXCEPT !.wrote = TRUE, !.pc = "finalize", !.checkpoint = 0]
      [] OTHER ->
            [w EXCEPT !.wrote = TRUE, !.pc = "finalize"]

WorkerWrite(t) ==
    /\ Runnable(t)
    /\ tasks[t].pc = "write"
    /\ status' = [status EXCEPT ![tasks[t].run] = StoreValue(tasks[t].status)]
    /\ tasks' = [tasks EXCEPT ![t] = Written(@)]
    /\ UNCHANGED <<otherVars, concurrency, attempts, kwargs, semaphore, WORKERS, WEBHOOKS, spc, loopVars,
                   endVars, hooks, nextTask, faults>>

\* the store call of the branch raises e.  Runs.set_status(.., "success")
\* is inside the try block: its exception is dispatched to the except
\* clauses.  The other calls are inside an except clause: the exception
\* propagates, but for InFailedSqlTransaction from Runs.delete, which
\* closes `exit` early and goes on
WriteFailed(w, e) ==
    CASE w.status = "success" ->
            [w EXCEPT !.status = BranchOf(e), !.exception = e]
      [] w.status = "rollback" /\ e = "InFailedSqlTransaction" ->
            [w EXCEPT !.ignored = TRUE, !.exitOpen = FALSE, !.checkpoint = 0,
                      !.pc = "finalize"]
      [] OTHER ->
            [w EXCEPT !.pc = "unwind", !.raised = e]

WorkerWriteRaises(t) ==
    /\ Runnable(t)
    /\ tasks[t].pc = "write"
    /\ faults < MaxFaults
    /\ faults' = faults + 1
    /\ \E e \in StoreErrors(tasks[t].status) :
          tasks' = [tasks EXCEPT ![t] = WriteFailed(@, e)]
    /\ UNCHANGED <<otherVars, storeVars, semaphore, WORKERS, WEBHOOKS, spc, loopVars,
                   endVars, hooks, nextTask>>

\* Finalized with the test of `temporary` left out
FinalizedAlwaysStatus(w, kw) ==
    [w EXCEPT !.threadOp = "set_status",
              !.threadCkpt = w.checkpoint,
              !.threadExc = w.exception,
              !.pc = "unwind"]

\* set_auth_ctx(None, None), then Threads.delete for a temporary run, else
\* Threads.set_status(conn, thread_id, checkpoint, exception)
Finalized(w, kw) ==
    [w EXCEPT !.threadOp = IF kw.temporary THEN "delete" ELSE "set_status",
              !.threadCkpt = IF kw.temporary THEN 0 ELSE w.checkpoint,
              !.threadExc = IF kw.temporary THEN "None" ELSE w.exception,
              !.pc = "unwind"]

WorkerFinalize(t) ==
    /\ Runnable(t)
    /\ tasks[t].pc = "finalize"
    /\ tasks' = [tasks EXCEPT ![t] = Finalized(@, kwargs[tasks[t].run])]
    /\ UNCHANGED <<otherVars, storeVars, semaphore, WORKERS, WEBHOOKS, spc, loopVars,
                   endVars, hooks, nextTask, faults>>

WorkerFinalizeRaises(t) ==
    /\ Runnable(t)
    /\ tasks[t].pc = "finalize"
    /\ faults < MaxFaults
    /\ faults' = faults + 1
    /\ tasks' = [tasks EXCEPT ![t] = [@ EXCEPT !.pc = "unwind", !.raised = "Other"]]
    /\ UNCHANGED <<otherVars, storeVars, semaphore, WORKERS, WEBHOOKS, spc, loopVars,
                   endVars, hooks, nextTask>>

\* the `async with` block is left: exit, Runs.enter, set_auth_ctx_for_run
\* and connect are exited in this order, then the task ends
WorkerExit(t) ==
    /\ Runnable(t)
    /\ tasks[t].pc = "unwind"
    /\ tasks' = [tasks EXCEPT ![t] =
                    Leave([@ EXCEPT !.exitOpen = FALSE], @.raised,
                          kwargs[tasks[t].run])]
    /\ UNCHANGED <<otherVars, storeVars, semaphore, WORKERS, WEBHOOKS, spc, loopVars,
                   endVars, hooks, nextTask, faults>>

\* task.cancel() from outside the scheduler (the shutdown asks in Cancel)
ExternalCancel(t) ==
    /\ Runnable(t)
    /\ faults < MaxFaults
    /\ faults' = faults + 1
    /\ tasks' = [tasks EXCEPT ![t].cancelReq = TRUE]
    /\ UNCHANGED <<otherVars, storeVars, semaphore, WORKERS, WEBHOOKS, spc, loopVars,
                   endVars, hooks, nextTask>>

\* WorkerCancelled with the CancelledError caught inside worker(), which
\* then returns its result
WorkerCancelledReturns(t) ==
    /\ LoopAlive
    /\ Live(t)
    /\ tasks[t].cancelReq
    /\ tasks' = [tasks EXCEPT ![t] =
                    [@ EXCEPT !.pc = "done", !.outcome = "returned",
                              !.exitOpen = (@ /\ tasks[t].pc = "created")]]
    /\ UNCHANGED <<otherVars, storeVars, semaphore, WORKERS, WEBHOOKS, spc, loopVars,
                   endVars, hooks, nextTask, faults>>

\* CancelledError is thrown into the task and leaves worker(): nothing is
\* written; a task that never ran never enters, so never closes, `exit`
WorkerCancelled(t) ==
    /\ LoopAlive
    /\ Live(t)
    /\ tasks[t].cancelReq
    /\ tasks' = [tasks EXCEPT ![t] =
                    [@ EXCEPT !.pc = "done", !.outcome = "cancelled",
                              !.raised = "CancelledError",
                              !.exitOpen = (@ /\ tasks[t].pc = "created")]]
    /\ UNCHANGED <<otherVars, storeVars, semaphore, WORKERS, WEBHOOKS, spc, loopVars,
                   endVars, hooks, nextTask, faults>>

\* ---------------------------------------------------- cleanup(task)
\* HookOf with the values of the checkpoint left out of the payload
HookOfNoValues(w) ==
    [pc |-> "live", status |-> w.status, values |-> 0,
     error |-> w.exception, cancelReq |-> FALSE]

\* the webhook task of a result that carries a webhook: the payload has
\* the status and the values of the checkpoint of the result, and an error
\* field when the result has an exception
HookOf(w) ==
    [pc |-> "live", status |-> w.status, values |-> w.checkpoint,
     error |-> w.exception, cancelReq |-> FALSE]

\* cleanup with semaphore.release() left out
cleanupKeepsSlot(t) ==
    /\ Done(t)
    /\ tasks[t].cleaned = 0
    /\ WORKERS' = WORKERS \ {t}
    /\ tasks' = [tasks EXCEPT ![t] = [NoTask EXCEPT !.pc = "done", !.cleaned = 1,
                                             !.cancelReq = tasks[t].cancelReq]]
    /\ IF tasks[t].outcome = "returned" /\ kwargs[tasks[t].run].webhook
       THEN /\ hooks' = [hooks EXCEPT ![t] = HookOf(tasks[t])]
            /\ WEBHOOKS' = WEBHOOKS \cup {t}
       ELSE UNCHANGED <<hooks, WEBHOOKS>>
    /\ UNCHANGED <<otherVars, storeVars, semaphore, spc, loopVars, endVars, nextTask, faults>>

\* the done callback of a worker task
cleanup(t) ==
    /\ Done(t)
    /\ tasks[t].cleaned = 0
    /\ WORKERS' = WORKERS \ {t}
    /\ semaphore' = semaphore + 1
    /\ tasks' = [tasks EXCEPT ![t] = [NoTask EXCEPT !.pc = "done", !.cleaned = 1,
                                             !.cancelReq = tasks[t].cancelReq]]
    /\ IF tasks[t].outcome = "returned" /\ kwargs[tasks[t].run].webhook
       THEN /\ hooks' = [hooks EXCEPT ![t] = HookOf(tasks[t])]
            /\ WEBHOOKS' = WEBHOOKS \cup {t}
       ELSE UNCHANGED <<hooks, WEBHOOKS>>
    /\ UNCHANGED <<otherVars, storeVars, spc, loopVars, endVars, nextTask, faults>>

\* _call_webhook() ends, the post having returned, or the task having been
\* cancelled; its done callback leaves WEBHOOKS
WebhookDone(t) ==
    /\ LoopAlive
    /\ HookLive(t)
    /\ hooks' = [hooks EXCEPT ![t] = [NoHook EXCEPT !.pc = "done",
                                             !.cancelReq = hooks[t].cancelReq]]
    /\ WEBHOOKS' = WEBHOOKS \ {t}
    /\ UNCHANGED <<otherVars, storeVars, semaphore, WORKERS, spc, loopVars, endVars, tasks,
                   nextTask, faults>>

\* WebhookFails with the failed post tried again instead of logged: the
\* task stays live and the scheduler is told by a released slot
WebhookFailsRetried(t) ==
    /\ LoopAlive
    /\ HookLive(t)
    /\ ~hooks[t].cancelReq
    /\ semaphore' = semaphore + 1
    /\ UNCHANGED <<otherVars, storeVars, WORKERS, WEBHOOKS, spc, loopVars, endVars, tasks,
                   hooks, nextTask, faults>>

\* the post raises: `except Exception` logs it and _call_webhook() returns;
\* nothing is retried and the task ends as after a post that returned
WebhookFails(t) ==
    /\ LoopAlive
    /\ HookLive(t)
    /\ ~hooks[t].cancelReq
    /\ hooks' = [hooks EXCEPT ![t] = [NoHook EXCEPT !.pc = "failed"]]
    /\ WEBHOOKS' = WEBHOOKS \ {t}
    /\ UNCHANGED <<otherVars, storeVars, semaphore, WORKERS, spc, loopVars, endVars, tasks,
                   nextTask, faults>>

\* ------------------------------------------------------------------ Next
Next ==
    \/ Acquire
    \/ \E r \in RunIds : Dispatch(r)
    \/ NoRun
    \/ NoRunCloseRaises
    \/ ClaimRaises
    \/ Housekeeping
    \/ HousekeepingRaises
    \/ Handler
    \/ HandlerRaises
    \/ Cancel
    \/ Drained
    \/ GraceElapsed
    \/ \E t \in TaskIds : WorkerStart(t)
    \/ \E t \in TaskIds : WorkerStartRaises(t)
    \/ \E t \in TaskIds : AttemptCeiling(t)
    \/ \E t \in TaskIds : OnCheckpoint(t)
    \/ \E t \in TaskIds, o \in Outcomes : Consumed(t, o)
    \/ \E t \in TaskIds : WorkerWrite(t)
    \/ \E t \in TaskIds : WorkerWriteRaises(t)
    \/ \E t \in TaskIds : WorkerFinalize(t)
    \/ \E t \in TaskIds : WorkerFinalizeRaises(t)
    \/ \E t \in TaskIds : WorkerExit(t)
    \/ \E t \in TaskIds : ExternalCancel(t)
    \/ \E t \in TaskIds : WorkerCancelled(t)
    \/ \E t \in TaskIds : cleanup(t)
    \/ \E t \in TaskIds : WebhookDone(t)
    \/ \E t \in TaskIds : WebhookFails(t)

Spec == Init /\ [][Next]_vars

\* the event loop runs the done callback of a finished task (call_soon)
FairSpec == Spec /\ \A t \in TaskIds : WF_vars(cleanup(t))

\* ---------------------------------------------------- end-to-end scenarios
\* one run is submitted; its pipeline drains, or raises a retriable
\* exception on the first attempt and drains on the next; no store call
\* raises and nothing is cancelled
Pipeline(a) == IF a = 1 THEN {"success", "retry"} ELSE {"success"}

ScenarioInit ==
    /\ Init
    /\ status = [r \in RunIds |-> IF r = 1 THEN "pending" ELSE "deleted"]
    /\ attempts = [r \in RunIds |-> 0]

ScenarioNext ==
    \/ Acquire
    \/ \E r \in RunIds : Dispatch(r)
    \/ NoRun
    \/ Housekeeping
    \/ \E t \in TaskIds : WorkerStart(t)
    \/ \E t \in TaskIds : OnCheckpoint(t)
    \/ \E t \in TaskIds : \E o \in Pipeline(tasks[t].attempt) : Consumed(t, o)
    \/ \E t \in TaskIds : WorkerWrite(t)
    \/ \E t \in TaskIds : WorkerFinalize(t)
    \/ \E t \in TaskIds : WorkerExit(t)
    \/ \E t \in TaskIds : cleanup(t)
    \/ \E t \in TaskIds : WebhookDone(t)
    \/ \E t \in TaskIds : WebhookFails(t)

\* the steps of the coroutine queue()
SchedulerStep ==
    Acquire \/ (\E r \in RunIds : Dispatch(r)) \/ NoRun \/ Housekeeping

\* the steps of the coroutine worker() of task t
WorkerStep(t) ==
    \/ WorkerStart(t)
    \/ OnCheckpoint(t)
    \/ \E o \in Pipeline(tasks[t].attempt) : Consumed(t, o)
    \/ WorkerWrite(t)
    \/ WorkerFinalize(t)
    \/ WorkerExit(t)

\* the event loop runs every task that is ready, and every done callback
ScenarioSpec ==
    /\ ScenarioInit /\ [][ScenarioNext]_vars
    /\ WF_vars(SchedulerStep)
    /\ \A t \in TaskIds : WF_vars(WorkerStep(t))
    /\ \A t \in TaskIds : WF_vars(cleanup(t))
    /\ \A t \in TaskIds : WF_vars(WebhookDone(t) \/ WebhookFails(t))

\* the steps of worker() of task t outside the consumption of the pipeline
WorkerStoreStep(t) ==
    WorkerStart(t) \/ WorkerWrite(t) \/ WorkerFinalize(t) \/ WorkerExit(t)

\* the scenario with a pipeline that may run for any length of time: the
\* event loop runs the scheduler, the store calls of the workers and the
\* callbacks, and loop.time() keeps advancing past the sweep interval, but
\* nothing makes the consumption of a pipeline end
LongPipelineSpec ==
    /\ ScenarioInit /\ [][ScenarioNext]_vars
    /\ WF_vars(SchedulerStep)
    /\ SF_vars(Acquire /\ do_sweep')
    /\ \A t \in TaskIds : WF_vars(WorkerStoreStep(t))
    /\ \A t \in TaskIds : WF_vars(cleanup(t))
    /\ \A t \in TaskIds : WF_vars(WebhookDone(t) \/ WebhookFails(t))

\* ------------------------------------------------------- retried runs
\* the runs have been claimed 0 to MAX_RETRY_ATTEMPTS times before; the
\* pipeline ends in any of its outcomes; no store call raises and nothing
\* is cancelled
RetryInit == Start(0..MAX_RETRY_ATTEMPTS)

RetryNext ==
    \/ Acquire
    \/ \E r \in RunIds : Dispatch(r)
    \/ NoRun
    \/ Housekeeping
    \/ \E t \in TaskIds : WorkerStart(t)
    \/ \E t \in TaskIds : AttemptCeiling(t)
    \/ \E t \in TaskIds : OnCheckpoint(t)
    \/ \E t \in TaskIds, o \in Outcomes : Consumed(t, o)
    \/ \E t \in TaskIds : WorkerWrite(t)
    \/ \E t \in TaskIds : WorkerFinalize(t)
    \/ \E t \in TaskIds : WorkerExit(t)
    \/ \E t \in TaskIds : cleanup(t)
    \/ \E t \in TaskIds : WebhookDone(t)
    \/ \E t \in TaskIds : WebhookFails(t)

RetrySpec == RetryInit /\ [][RetryNext]_vars

\* ------------------------------------- worker(): the stream callbacks
\* `checkpoint` of worker() as the callbacks see it: None, or the payload
\* of a checkpoint event with its list of task entries
None == [none |-> TRUE, tasks |-> <<>>]

EntryIds == 1..MaxEntries
ResultValues == 1..2

\* the task lists of a checkpoint payload: entries (dicts with an id and a
\* name) whose ids are distinct, as the pipeline produces them
TaskLists ==
    {[i \in DOMAIN ids |-> [id |-> ids[i], name |-> ids[i]]] :
        ids \in {f \in UNION {[1..n -> EntryIds] : n \in 0..MaxEntries} :
                    \A i, j \in DOMAIN f : i # j => f[i] # f[j]}}

CheckpointPayloads == {[none |-> FALSE, tasks |-> ts] : ts \in TaskLists}

\* a task-result payload: a dict with the id of a task and its result
TaskResultPayloads == [id : EntryIds, result : ResultValues]

\* dict.update: the keys of u are set in d, the other keys of d are kept
Update(d, u) ==
    [k \in DOMAIN d \cup DOMAIN u |-> IF k \in DOMAIN u THEN u[k] ELSE d[k]]

\* on_checkpoint: the nonlocal is rebound to the payload
on_checkpoint(held, checkpoint_arg) == checkpoint_arg

\* index of the entry the for loop stops at (its `break`), 0 when the loop
\* runs to its end
FirstMatch(ts, id) ==
    IF \E i \in DOMAIN ts : ts[i].id = id
    THEN CHOOSE i \in DOMAIN ts :
            ts[i].id = id /\ \A j \in 1..(i - 1) : ts[j].id # id
    ELSE 0

\* on_task_result with the test of the id left out: the first entry of
\* the list is updated
on_task_result_any(held, task_result) ==
    IF held.none \/ held.tasks = <<>>
    THEN held
    ELSE [held EXCEPT !.tasks[1] = Update(@, task_result)]

\* on_task_result: nothing without a checkpoint; else the first entry
\* with the id of the result is updated in place
on_task_result(held, task_result) ==
    IF held.none
    THEN held
    ELSE LET i == FirstMatch(held.tasks, task_result.id)
         IN  IF i = 0 THEN held
             ELSE [held EXCEPT !.tasks[i] = Update(@, task_result)]

\* everything of queue() and of the store, and the tasks
queueVars == <<storeVars, semaphore, WORKERS, WEBHOOKS, spc, loopVars, endVars,
               tasks, hooks, nextTask, faults>>

\* the pipeline emits a checkpoint event
CheckpointEvent(c) ==
    /\ Len(events) < MaxEvents
    /\ checkpoint' = on_checkpoint(checkpoint, c)
    /\ events' = Append(events, [kind |-> "checkpoint", payload |-> c])
    /\ UNCHANGED <<queueVars, sseVars, graphVars, serverVars>>

\* the pipeline emits a task-result event
TaskResultEvent(r) ==
    /\ Len(events) < MaxEvents
    /\ checkpoint' = on_task_result(checkpoint, r)
    /\ events' = Append(events, [kind |-> "task_result", payload |-> r])
    /\ UNCHANGED <<queueVars, sseVars, graphVars, serverVars>>

\* the stream of one attempt of a run that is not temporary, as the two
\* callbacks see it
CallbackInit ==
    /\ Init
    /\ concurrency = 1
    /\ attempts = [r \in RunIds |-> 0]
    /\ kwargs = [r \in RunIds |-> [temporary |-> FALSE, webhook |-> FALSE,
                                   auth |-> FALSE]]

CallbackNext ==
    \/ \E c \in CheckpointPayloads : CheckpointEvent(c)
    \/ \E r \in TaskResultPayloads : TaskResultEvent(r)

CallbackSpec == CallbackInit /\ [][CallbackNext]_vars

\* ------------------------------------------------------------ SSEDecoder
\* a line is a sequence of tokens: the four field names and one token for
\* each kind of character the decoder tells apart (colon, space, NUL,
\* digit); the line has no newline (iter_sse strips it)
Tokens == {"event", "data", "id", "retry", ":", " ", "NUL", "7"}

Lines == UNION {[1..n -> Tokens] : n \in 0..MaxLineLen}

FieldNames == {<<"event">>, <<"data">>, <<"id">>, <<"retry">>}

\* line.partition(":"): position of the first colon, 0 if there is none
ColonAt(line) ==
    IF \E i \in DOMAIN line : line[i] = ":"
    THEN CHOOSE i \in DOMAIN line :
            line[i] = ":" /\ \A j \in 1..(i - 1) : line[j] # ":"
    ELSE 0

fieldname(line) ==
    IF ColonAt(line) = 0 THEN line ELSE SubSeq(line, 1, ColonAt(line) - 1)

\* the part after the first colon, less one leading space
value(line) ==
    LET v == IF ColonAt(line) = 0 THEN <<>>
             ELSE SubSeq(line, ColonAt(line) + 1, Len(line))
    IN  IF v # <<>> /\ v[1] = " " THEN Tail(v) ELSE v

\* int(value): surrounding whitespace is dropped, then at least one digit
\* and nothing but digits is required, else ValueError
RECURSIVE LStrip(_)
LStrip(v) == IF v # <<>> /\ v[1] = " " THEN LStrip(Tail(v)) ELSE v

RECURSIVE RStrip(_)
RStrip(v) ==
    IF v # <<>> /\ v[Len(v)] = " " THEN RStrip(SubSeq(v, 1, Len(v) - 1)) ELSE v

IsInt(v) ==
    LET c == RStrip(LStrip(v))
    IN  c # <<>> /\ \A i \in DOMAIN c : c[i] = "7"

RECURSIVE Digits(_)
Digits(c) == IF c = <<>> THEN 0 ELSE 10 * Digits(SubSeq(c, 1, Len(c) - 1)) + 7

int(v) == Digits(RStrip(LStrip(v)))

\* "\n".join(self._data)
RECURSIVE Join(_)
Join(d) ==
    IF d = <<>> THEN <<>>
    ELSE IF Len(d) = 1 THEN d[1]
    ELSE d[1] \o <<"LF">> \o Join(Tail(d))

\* the kind of a line, for the record of what decode was given
KindOf(line) ==
    CASE line = <<>> -> "blank"
      [] line # <<>> /\ line[1] = ":" -> "comment"
      [] fieldname(line) = <<"id">> /\ (\E i \in DOMAIN value(line) : value(line)[i] = "NUL")
            -> "id_with_nul"
      [] fieldname(line) = <<"retry">> /\ ~IsInt(value(line)) -> "retry_not_int"
      [] OTHER -> IF fieldname(line) \in FieldNames THEN "field" ELSE "ignored"

\* AfterEmit with the last event id reset as well
AfterEmitResetsId == [event |-> <<>>, data |-> <<>>, last_event_id |-> <<>>,
                      retry |-> <<>>]

\* the fields of the decoder after an event was built from them
AfterEmit == [event |-> <<>>, data |-> <<>>, last_event_id |-> last_event_id,
              retry |-> <<>>]

\* the test of decode for an empty line that returns None
NothingBuffered ==
    event = <<>> /\ data = <<>> /\ last_event_id = <<>> /\ retry = <<>>

\* SSEDecoder.decode(line)
decode(line) ==
    /\ lineKind' = KindOf(line)
    /\ IF line = <<>>
       THEN IF NothingBuffered
            THEN /\ sse' = NoEvent
                 /\ UNCHANGED <<event, data, last_event_id, retry, fieldSeen>>
            ELSE /\ sse' = [emitted |-> TRUE, event |-> event, data |-> Join(data),
                            id |-> last_event_id, retry |-> retry]
                 /\ event' = AfterEmit.event
                 /\ data' = AfterEmit.data
                 /\ last_event_id' = AfterEmit.last_event_id
                 /\ retry' = AfterEmit.retry
                 /\ fieldSeen' = FALSE
       ELSE /\ sse' = NoEvent
            /\ IF line[1] = ":"
               THEN UNCHANGED <<event, data, last_event_id, retry, fieldSeen>>
               ELSE /\ fieldSeen' = (fieldSeen \/ fieldname(line) \in FieldNames)
                    /\ fieldname(line) = <<"data">> => Len(data) < MaxData
                    /\ event' = IF fieldname(line) = <<"event">>
                                THEN value(line) ELSE event
                    /\ data' = IF fieldname(line) = <<"data">>
                               THEN Append(data, value(line)) ELSE data
                    /\ last_event_id' =
                          IF /\ fieldname(line) = <<"id">>
                             /\ \A i \in DOMAIN value(line) : value(line)[i] # "NUL"
                          THEN value(line) ELSE last_event_id
                    /\ retry' = IF fieldname(line) = <<"retry">> /\ IsInt(value(line))
                                THEN <<int(value(line))>> ELSE retry
    /\ UNCHANGED <<queueVars, callbackVars, graphVars, serverVars>>

\* a decoder fed the lines of a response one by one (iter_sse)
SSEInit == CallbackInit

SSENext == \E line \in Lines : decode(line)

SSESpec == SSEInit /\ [][SSENext]_vars

\* -------------------------------------------------------- research graph
SectionNames == {"a", "b", "c"}

\* Section(name=..., research=True, content="", ...): content FALSE = ""
Section(name) == [name |-> name, content |-> FALSE]

\* the section lists the planner's response can hold
Plans == UNION {[1..n -> {Section(name) : name \in SectionNames}] : n \in 0..MaxSections}

\* the number of queries parse_queries can return
QueryCounts == {0, 2}

\* ReportState.completed_sections: Annotated[list, operator.add]
operator_add(left, right) == left \o right

\* generate_report_plan, its response parsed into the section list `plan`
generate_report_plan(plan) ==
    /\ node = "generate_report_plan"
    /\ IF plan = <<>>
       THEN /\ error' = TRUE
            /\ node' = "END"
            /\ UNCHANGED <<sections, section, completed_sections, search_iterations,
                           search_queries, source_str, report_sections_from_research>>
       ELSE /\ sections' = plan
            /\ section' = <<plan[1]>>
            /\ search_iterations' = 0
            /\ search_queries' = 0
            /\ source_str' = FALSE
            /\ report_sections_from_research' = FALSE
            /\ completed_sections' = operator_add(completed_sections, <<>>)
            /\ node' = "generate_queries"
            /\ UNCHANGED error
    /\ UNCHANGED <<queueVars, callbackVars, sseVars, serverVars>>

\* generate_report_plan, its response not parsed (the except clauses)
PlanUnparsable ==
    /\ node = "generate_report_plan"
    /\ error' = TRUE
    /\ node' = "END"
    /\ UNCHANGED <<sections, section, completed_sections, search_iterations,
                   search_queries, source_str, report_sections_from_research>>
    /\ UNCHANGED <<queueVars, callbackVars, sseVars, serverVars>>

generate_queries ==
    /\ node = "generate_queries"
    /\ IF section = <<>>
       THEN error' = TRUE /\ UNCHANGED search_queries
       ELSE (\E q \in QueryCounts : search_queries' = q) /\ UNCHANGED error
    /\ node' = "search_web"
    /\ UNCHANGED <<sections, section, completed_sections, search_iterations,
                   source_str, report_sections_from_research>>
    /\ UNCHANGED <<queueVars, callbackVars, sseVars, serverVars>>

search_web ==
    /\ node = "search_web"
    /\ search_iterations' = search_iterations + 1
    /\ source_str' = TRUE
    /\ node' = "write_section"
    /\ UNCHANGED <<sections, section, completed_sections, search_queries,
                   report_sections_from_research, error>>
    /\ UNCHANGED <<queueVars, callbackVars, sseVars, serverVars>>

\* next((i for i, s in enumerate(sections) if s.name == section.name), -1),
\* counted from 1: 0 when no section has the name
current_index(ss, sec) ==
    IF \E i \in DOMAIN ss : ss[i].name = sec.name
    THEN CHOOSE i \in DOMAIN ss :
            ss[i].name = sec.name /\ \A j \in 1..(i - 1) : ss[j].name # sec.name
    ELSE 0

\* write_section; its return ends the section sub-graph (the edge from
\* write_section to END), whose output is added to the outer state, and the
\* outer graph goes on to gather_completed_sections
write_section ==
    /\ node = "write_section"
    /\ section # <<>>
    /\ LET written == [section[1] EXCEPT !.content = TRUE]
           completed == Append(completed_sections, written)
           index == current_index(sections, section[1])
       IN  /\ completed_sections' = operator_add(completed_sections, completed)
           /\ IF index < Len(sections)
              THEN /\ section' = <<sections[index + 1]>>
                   /\ search_iterations' = 0
                   /\ search_queries' = 0
                   /\ source_str' = FALSE
              ELSE UNCHANGED <<section, search_iterations, search_queries, source_str>>
    /\ node' = "gather_completed_sections"
    /\ UNCHANGED <<sections, report_sections_from_research, error>>
    /\ UNCHANGED <<queueVars, callbackVars, sseVars, serverVars>>

gather_completed_sections ==
    /\ node = "gather_completed_sections"
    /\ report_sections_from_research' = TRUE
    /\ node' = "END"
    /\ UNCHANGED <<sections, section, completed_sections, search_iterations,
                   search_queries, source_str, error>>
    /\ UNCHANGED <<queueVars, callbackVars, sseVars, serverVars>>

\* a model call or a search raises inside a node: the run of the graph fails
StepRaises ==
    /\ node \in {"generate_report_plan", "generate_queries", "search_web",
                 "write_section"}
    /\ node' = "raised"
    /\ UNCHANGED <<sections, section, completed_sections, search_iterations,
                   search_queries, source_str, report_sections_from_research, error>>
    /\ UNCHANGED <<queueVars, callbackVars, sseVars, serverVars>>

GraphInit == CallbackInit

GraphNext ==
    \/ \E plan \in Plans : generate_report_plan(plan)
    \/ PlanUnparsable
    \/ generate_queries
    \/ search_web
    \/ write_section
    \/ gather_completed_sections
    \/ StepRaises

GraphSpec == GraphInit /\ [][GraphNext]_vars

\* ---------------------------------------------------------- HTTP server
SessionIds == 1..MaxSessions

\* SessionStore.get_session: whether it returns a session
get_session(session_id) == session_id \in graphs

\* SessionStore.create_session: the keys of _graphs after the call
create_session(session_id) == graphs \cup {session_id}

\* HTTPException(status_code=400, detail="Invalid session")
InvalidSession == [status |-> 400, detail |-> "Invalid session"]

\* str() of an HTTPException: "<status_code>: <detail>"
str(e) == IF e = InvalidSession THEN "400: Invalid session" ELSE e.detail

\* the handler's `except Exception as e`, entered by an exception e of its
\* try block: raise HTTPException(status_code=500, detail=str(e))
ExceptException(e) == [status |-> 500, detail |-> str(e)]

StreamingResponse == [status |-> 200, detail |-> "text/event-stream"]

\* a request is taken when no stream is open
NoStream == pos \in {"idle", "closed"}

\* POST /api/research: session_id = str(uuid.uuid4())
research ==
    /\ NoStream
    /\ \E session_id \in SessionIds \ graphs :
          /\ graphs' = create_session(session_id)
          /\ request' = [endpoint |-> "research", session_id |-> session_id]
    /\ response' = StreamingResponse
    /\ pos' = "loop"
    /\ out' = <<>>
    /\ raisedIn' = "none"
    /\ UNCHANGED <<queueVars, callbackVars, sseVars, graphVars>>

\* POST /api/research/feedback
provide_feedback(session_id) ==
    /\ NoStream
    /\ request' = [endpoint |-> "feedback", session_id |-> session_id]
    /\ IF ~get_session(session_id)
       THEN /\ response' = ExceptException(InvalidSession)
            /\ pos' = "idle"
       ELSE /\ response' = StreamingResponse
            /\ pos' = "loop"
    /\ out' = <<>>
    /\ raisedIn' = "none"
    /\ UNCHANGED graphs
    /\ UNCHANGED <<queueVars, callbackVars, sseVars, graphVars>>

\* the graph stream hands over a dict and the generator yields it processed
YieldEvent ==
    /\ pos = "loop" /\ Len(out) < MaxItems
    /\ out' = Append(out, "event")
    /\ raisedIn' = "nothing"
    /\ UNCHANGED <<graphs, request, response, pos>>
    /\ UNCHANGED <<queueVars, callbackVars, sseVars, graphVars>>

\* ProcessingRaises with the exception ending the loop
ProcessingRaisesEndsStream ==
    /\ pos = "loop" /\ Len(out) < MaxItems
    /\ out' = Append(out, "error")
    /\ pos' = "except"
    /\ raisedIn' = "processing"
    /\ UNCHANGED <<graphs, request, response>>
    /\ UNCHANGED <<queueVars, callbackVars, sseVars, graphVars>>

\* process_event or json.dumps raises on a dict: the inner handler yields an
\* error item
ProcessingRaises ==
    /\ pos = "loop" /\ Len(out) < MaxItems
    /\ out' = Append(out, "error")
    /\ pos' = "loop"
    /\ raisedIn' = "processing"
    /\ UNCHANGED <<graphs, request, response>>
    /\ UNCHANGED <<queueVars, callbackVars, sseVars, graphVars>>

\* the graph stream hands over something that is not a dict
NonDictEvent ==
    /\ pos = "loop" /\ Len(out) < MaxItems
    /\ out' = Append(out, "error")
    /\ raisedIn' = "non_dict"
    /\ UNCHANGED <<graphs, request, response, pos>>
    /\ UNCHANGED <<queueVars, callbackVars, sseVars, graphVars>>

\* research only: event_to_dict or the logging of its result raises, and the
\* handler around the body of the loop yields an error item
EventToDictRaises ==
    /\ pos = "loop" /\ Len(out) < MaxItems
    /\ request.endpoint = "research"
    /\ out' = Append(out, "error")
    /\ raisedIn' = "event_to_dict"
    /\ UNCHANGED <<graphs, request, response, pos>>
    /\ UNCHANGED <<queueVars, callbackVars, sseVars, graphVars>>

\* the graph stream raises: the handler around the loop yields an error item
StreamRaises ==
    /\ pos = "loop"
    /\ out' = Append(out, "error")
    /\ pos' = "except"
    /\ raisedIn' = "stream"
    /\ UNCHANGED <<graphs, request, response>>
    /\ UNCHANGED <<queueVars, callbackVars, sseVars, graphVars>>

\* the graph stream is exhausted: the finally clause yields the last item
StreamEnds ==
    /\ pos = "loop"
    /\ out' = Append(out, "DONE")
    /\ pos' = "finally"
    /\ raisedIn' = "end"
    /\ UNCHANGED <<graphs, request, response>>
    /\ UNCHANGED <<queueVars, callbackVars, sseVars, graphVars>>

\* resumed after the error item of the handler around the loop: the finally
\* clause yields the last item
Finally ==
    /\ pos = "except"
    /\ out' = Append(out, "DONE")
    /\ pos' = "finally"
    /\ raisedIn' = "nothing"
    /\ UNCHANGED <<graphs, request, response>>
    /\ UNCHANGED <<queueVars, callbackVars, sseVars, graphVars>>

\* resumed after the last item: the generator returns
Return ==
    /\ pos = "finally"
    /\ pos' = "closed"
    /\ raisedIn' = "nothing"
    /\ UNCHANGED <<graphs, request, response, out>>
    /\ UNCHANGED <<queueVars, callbackVars, sseVars, graphVars>>

event_generator ==
    \/ YieldEvent
    \/ ProcessingRaises
    \/ NonDictEvent
    \/ EventToDictRaises
    \/ StreamRaises
    \/ StreamEnds
    \/ Finally
    \/ Return

ServerInit == CallbackInit

ServerNext ==
    \/ research
    \/ \E session_id \in SessionIds : provide_feedback(session_id)
    \/ event_generator

ServerSpec == ServerInit /\ [][ServerNext]_vars

\* ================================================================ claims
LiveWorkers == {t \in TaskIds : Live(t)}

\* a task whose frame still holds the outcome of its attempt
Ended(t) == Done(t) /\ tasks[t].cleaned = 0

\* C1: for a scheduler started with concurrency N, at most N worker tasks
\* are running at any time, also after iterations in which the claim, the
\* stats or the sweep step raised.
C1_AtMostNUnits == Cardinality(LiveWorkers) <= concurrency

InsideAttempt(t) == tasks[t].pc \in {"body", "write", "finalize"}

\* what the code does keep: no two worker tasks are inside the attempt body
\* (pipeline consumption, status write, thread finalization) of the same
\* run at the same time; the overlap is between a task that wrote pending
\* in the retriable branch and is leaving its contexts, and the next attempt
OneUnitInsideAttempt ==
    \A t1 \in TaskIds, t2 \in TaskIds :
        (t1 # t2 /\ InsideAttempt(t1) /\ InsideAttempt(t2))
            => tasks[t1].run # tasks[t2].run

\* C3: an attempt that was not cancelled from outside ends with a status
\* written by that attempt, whatever failed inside worker().
C3_AttemptWritesStatus ==
    \A t \in TaskIds :
        (Ended(t) /\ tasks[t].outcome # "cancelled") => tasks[t].wrote

\* C4: an attempt numbered above MAX_RETRY_ATTEMPTS ends with the run in
\* status error.
C4_CeilingEndsInError ==
    \A t \in TaskIds :
        (Ended(t) /\ tasks[t].outcome # "cancelled"
                  /\ tasks[t].attempt > MAX_RETRY_ATTEMPTS)
            => status[tasks[t].run] = "error"

\* C5: an attempt whose retriable branch has written pending ends its
\* task with the retriable exception, not with a result.
C5_RetriableReraises ==
    \A t \in TaskIds :
        (Ended(t) /\ tasks[t].outcome # "cancelled"
                  /\ tasks[t].status = "retry" /\ tasks[t].wrote)
            => (tasks[t].outcome = "raised" /\ tasks[t].raised = "Retriable")

\* C6: the while loop of queue() is left only by cancellation.
C6_LoopEndsOnlyByCancel ==
    spc \in {"draining", "returned"} => escaped = "CancelledError"

\* the completion handler runs at most once per spawned worker task, after
\* the task is done; that run takes the task out of WORKERS and releases
\* exactly one slot, and until then the task stays in WORKERS
CompletionHandlerOnce ==
    [][\A t \in TaskIds :
        /\ (t \in WORKERS) = (tasks[t].pc # "none" /\ tasks[t].cleaned = 0)
        /\ tasks'[t].cleaned # tasks[t].cleaned =>
              /\ Done(t)
              /\ tasks[t].cleaned = 0 /\ tasks'[t].cleaned = 1
              /\ WORKERS' = WORKERS \ {t}
              /\ semaphore' = semaphore + 1]_vars

\* a worker task that is done, having returned, raised or been cancelled,
\* gets its completion handler run
CompletionHandlerRuns ==
    \A t \in TaskIds :
        (Done(t) /\ tasks[t].cleaned = 0) ~> (tasks[t].cleaned = 1)

\* C7: for every spawned worker task the completion handler runs exactly
\* once after the task finishes, however it finished, and that single run
\* removes the task from WORKERS and releases exactly one slot.
C7_CompletionHandler == CompletionHandlerOnce /\ CompletionHandlerRuns

\* the handler has run for one task while another one is still tracked
C7_Witness ==
    \E t \in TaskIds, u \in TaskIds :
        /\ tasks[t].cleaned = 1 /\ t \notin WORKERS
        /\ u \in WORKERS

\* C8: every live worker or webhook task is in WORKERS or WEBHOOKS, and
\* when queue() leaves its loop every task live at that moment is asked
\* to cancel before queue() returns.
C8_ShutdownCancelsLive ==
    [][\A t \in TaskIds :
        /\ Live(t) => t \in WORKERS
        /\ HookLive(t) => t \in WEBHOOKS
        /\ (spc \notin {"draining", "returned"} /\ spc' = "draining") =>
              /\ Live(t) => tasks'[t].cancelReq
              /\ HookLive(t) => hooks'[t].cancelReq]_vars

\* the shutdown has asked a live worker and a live webhook task to cancel
C8_Witness ==
    /\ spc = "draining"
    /\ escaped = "CancelledError"
    /\ \E t \in TaskIds : Live(t) /\ tasks[t].cancelReq
    /\ \E t \in TaskIds : HookLive(t) /\ hooks[t].cancelReq

\* C9: after cancellation queue() ends with the cancellation and with
\* nothing else, also when a cancelled task does not unwind in time.
C9_ShutdownEndsWithCancellation ==
    (spc = "returned" /\ escaped = "CancelledError")
        => queueExc = "CancelledError"

\* the rollback branch ran to its end: Runs.delete succeeded, or failed
\* with InFailedSqlTransaction, which was ignored
RollbackDone(w) == w.status = "rollback" /\ (w.wrote \/ w.ignored)

\* C10: after the rollback branch the run record is absent, or the delete
\* failed with a failed transaction, the claim scope was closed early and
\* the thread status is still updated; either way the checkpoint of the
\* result and the one passed to thread finalization are null.
C10_RollbackUpdatesThreadStatus ==
    \A t \in TaskIds :
        (tasks[t].cleaned = 0 /\ RollbackDone(tasks[t])) =>
            /\ tasks[t].checkpoint = 0
            /\ tasks[t].threadCkpt = 0
            /\ tasks[t].wrote => status[tasks[t].run] = "deleted"
            /\ tasks[t].ignored => ~tasks[t].exitOpen
            /\ (tasks[t].ignored /\ tasks[t].pc = "done"
                                 /\ tasks[t].raised = "None")
                  => tasks[t].threadOp = "set_status"

\* C10 (amended): as above, with the thread finalization being what
\* worker() does for the run: Threads.delete for a temporary run,
\* Threads.set_status otherwise; it has run whenever the attempt ended
\* without a further exception.
C10_RollbackResetsCheckpoint ==
    \A t \in TaskIds :
        (tasks[t].cleaned = 0 /\ RollbackDone(tasks[t])) =>
            /\ tasks[t].checkpoint = 0
            /\ tasks[t].threadCkpt = 0
            /\ tasks[t].wrote => status[tasks[t].run] = "deleted"
            /\ tasks[t].ignored => ~tasks[t].exitOpen
            /\ tasks[t].pc \in {"finalize", "unwind", "done"}
            /\ (tasks[t].pc = "done" /\ tasks[t].raised = "None")
                  => tasks[t].threadOp =
                        (IF kwargs[tasks[t].run].temporary THEN "delete"
                                                           ELSE "set_status")

\* a result of the rollback branch after an ignored failed transaction,
\* the thread status written
C10_Witness ==
    \E t \in TaskIds :
        /\ Ended(t)
        /\ tasks[t].outcome = "returned"
        /\ tasks[t].status = "rollback"
        /\ tasks[t].ignored
        /\ tasks[t].threadOp = "set_status"

\* the statuses no later step changes ("deleted": the record is gone after
\* a rollback)
Absorbing == {"success", "error", "timeout", "interrupted", "deleted"}

C13_WebhookAfterFinalization ==
    [][\A t \in TaskIds :
          (hooks[t].pc = "none" /\ hooks'[t].pc = "live" /\ tasks[t].wrote)
              => tasks[t].threadOp # "none"]_vars

DrainedWithCheckpoint ==
    /\ tasks[1].pc = "write" /\ tasks[1].status = "success"
    /\ tasks[1].attempt = 1
    /\ tasks[1].checkpoint >= 1
    /\ kwargs[1].webhook /\ ~kwargs[1].temporary

\* C15: for a run that is not temporary and carries a webhook, whose
\* pipeline drains after one or more checkpoint events, the run ends with
\* status success and exactly one webhook call is made, with status
\* success, the values of the last checkpoint event and no error field.
C15_SuccessWebhook ==
    /\ [][\A t \in TaskIds :
            /\ (hooks[t].pc = "none" /\ hooks'[t].pc = "live"
                    /\ tasks[t].status = "success") =>
                  /\ hooks'[t].status = "success"
                  /\ hooks'[t].values = tasks[t].checkpoint
                  /\ hooks'[t].error = "None"
                  /\ status[tasks[t].run] = "success"
            /\ hooks[t].pc \in {"done", "failed"} => hooks'[t] = hooks[t]
            /\ (tasks[t].pc \in {"write", "finalize", "unwind", "done"}
                    /\ tasks[t].status = "success")
                  => tasks'[t].checkpoint \in {tasks[t].checkpoint, 0}]_vars
    /\ DrainedWithCheckpoint ~> (hooks[1].pc = "live" /\ hooks[1].values >= 1)
    /\ DrainedWithCheckpoint ~>
          [](/\ status[1] = "success" /\ attempts[1] = 1
             /\ hooks[1].pc \in {"done", "failed"}
             /\ \A t \in TaskIds : t # 1 => hooks[t].pc = "none")

\* the webhook call of the drained run is under way and carries the values
\* of its second checkpoint event
C15_Witness ==
    /\ status[1] = "success" /\ attempts[1] = 1
    /\ ~kwargs[1].temporary
    /\ hooks[1].pc = "live" /\ hooks[1].status = "success"
    /\ hooks[1].values = 2 /\ hooks[1].error = "None"

\* the first attempt of run 1 took the retriable branch
RetriedFirst ==
    tasks[1].attempt = 1 /\ tasks[1].status = "retry" /\ tasks[1].pc = "write"

\* C16: when the pipeline of a run raises a retriable exception on the first
\* attempt and drains on the second, the run is claimed again, the worker
\* tasks see the attempt numbers 1 and then 2, and the run ends with status
\* success after exactly two attempts.
C16_RetryThenSuccess ==
    /\ [][\A t \in TaskIds :
            (tasks[t].pc = "none" /\ tasks'[t].pc = "created") =>
                /\ tasks'[t].run = 1
                /\ tasks'[t].attempt = t
                /\ attempts'[1] = t]_vars
    /\ RetriedFirst ~> (status[1] = "pending")
    /\ RetriedFirst ~> (tasks[2].pc = "created" /\ tasks[2].attempt = 2
                                                /\ status[1] = "running")
    /\ RetriedFirst ~> [](status[1] = "success" /\ attempts[1] = 2)

\* the second attempt has ended and left the run in status success
C16_Witness ==
    /\ status[1] = "success" /\ attempts[1] = 2
    /\ tasks[1].cleaned = 1
    /\ Ended(2) /\ tasks[2].attempt = 2 /\ tasks[2].status = "success"

\* a task past the end of the pipeline: its terminal branch is chosen
BranchTaken(t) == tasks[t].pc \in {"write", "finalize", "unwind"}

\* C17: in the success, timeout, interrupt and error branches of a run that
\* is not temporary, the checkpoint of the result and the one passed to
\* Threads.set_status is the last one captured before the branch was
\* taken; only the rollback branch resets it.
C17_CheckpointPreserved ==
    [][\A t \in TaskIds :
          /\ (BranchTaken(t) /\ tasks'[t].cleaned = 0) =>
                \/ tasks'[t].checkpoint = tasks[t].checkpoint
                \/ tasks[t].status = "rollback" /\ tasks'[t].checkpoint = 0
          /\ (tasks[t].pc = "body" /\ tasks'[t].pc = "write") =>
                tasks'[t].checkpoint = tasks[t].checkpoint
          /\ (tasks[t].pc = "finalize" /\ tasks'[t].threadOp = "set_status") =>
                tasks'[t].threadCkpt = tasks[t].checkpoint
          /\ (Ended(t) /\ hooks'[t].pc = "live" /\ hooks[t].pc = "none") =>
                hooks'[t].values = tasks[t].checkpoint]_vars

\* an attempt that timed out after two checkpoint events has returned: the
\* second one is in its result and was passed to Threads.set_status
C17_Witness ==
    \E t \in TaskIds :
        /\ Ended(t) /\ tasks[t].outcome = "returned"
        /\ tasks[t].status = "timeout"
        /\ tasks[t].checkpoint = 2
        /\ tasks[t].threadOp = "set_status" /\ tasks[t].threadCkpt = 2

\* the thread finalization of worker() for a run with payload kw
ThreadOpOf(kw) == IF kw.temporary THEN "delete" ELSE "set_status"

C19_FinalizationByTemporary ==
    \A t \in TaskIds :
        (tasks[t].pc # "none" /\ tasks[t].cleaned = 0) =>
            LET w == tasks[t]
                kw == kwargs[w.run]
            IN  /\ w.threadOp \in {"none", ThreadOpOf(kw)}
                /\ kw.temporary =>
                      /\ w.threadOp # "set_status"
                      /\ w.checkpoint = 0 /\ w.threadCkpt = 0
                /\ ~kw.temporary =>
                      /\ w.threadOp # "delete"
                      /\ w.threadOp = "set_status" =>
                            /\ w.threadCkpt = w.checkpoint
                            /\ w.threadExc = w.exception

\* the attempt of a temporary run has drained its pipeline, deleted the
\* thread and returned a result with no checkpoint
C19_Witness ==
    \E t \in TaskIds :
        /\ Ended(t) /\ tasks[t].outcome = "returned"
        /\ kwargs[tasks[t].run].temporary
        /\ tasks[t].status = "success"
        /\ tasks[t].threadOp = "delete"
        /\ tasks[t].checkpoint = 0

\* C20: the claim scope of a run (the exit stack holding the Runs.next
\* context) is closed on every exit path of its attempt: a worker task
\* that is over, however it ended, has left no claim scope open.
C20_ScopeReleased ==
    \A t \in TaskIds : Ended(t) => ~tasks[t].exitOpen

\* C21: the claim call of the first loop iteration and of an iteration that
\* follows a successful claim passes wait = FALSE, and wait = TRUE is passed
\* exactly when the previous poll returned no run and the iteration is not
\* the first.
C21_WaitPolicy ==
    spc = "claim" => (wait <=> (~tup /\ ~first))

C23_StatusByOutcome ==
    [][\A t \in TaskIds :
          (/\ tasks[t].pc = "write"
           /\ tasks[t].attempt <= MAX_RETRY_ATTEMPTS
           /\ ~tasks[t].cancelReq
           /\ tasks'[t].wrote)
          => status'[tasks[t].run] = StoreValue(tasks[t].pipeline)]_vars

\* C24: gate slots are conserved: while the loop runs, the free permits, the
\* worker tasks not yet cleaned up and the slot the loop holds between its
\* acquire and the dispatch or release add up to the concurrency the
\* scheduler was started with; no iteration releases a slot twice or
\* releases a slot it handed to a worker.
C24_SlotsConserved ==
    spc \in {"loop", "claim", "housekeep", "handler"} =>
        semaphore + Cardinality(WORKERS) + (IF spc = "claim" THEN 1 ELSE 0)
            = concurrency

\* index of the last checkpoint event of ev, 0 if there is none
LastCheckpointAt(ev) ==
    IF \E i \in DOMAIN ev : ev[i].kind = "checkpoint"
    THEN CHOOSE i \in DOMAIN ev :
            /\ ev[i].kind = "checkpoint"
            /\ \A j \in (i + 1)..Len(ev) : ev[j].kind # "checkpoint"
    ELSE 0

\* entry e after the task results of ev[from..Len(ev)] that carry its id
RECURSIVE MergedEntry(_, _, _)
MergedEntry(e, ev, from) ==
    IF from > Len(ev) THEN e
    ELSE MergedEntry(IF ev[from].kind = "task_result" /\ ev[from].payload.id = e.id
                     THEN Update(e, ev[from].payload) ELSE e,
                     ev, from + 1)

\* the last checkpoint of ev with each entry merged with the later results
MergedCheckpoint(ev) ==
    LET k == LastCheckpointAt(ev)
    IN  IF k = 0 THEN None
        ELSE [none |-> FALSE,
              tasks |-> [i \in DOMAIN ev[k].payload.tasks |->
                            MergedEntry(ev[k].payload.tasks[i], ev, k + 1)]]

\* C25: after any sequence of checkpoint and task-result events of a run
\* that is not temporary, the checkpoint the worker holds is the last
\* checkpoint event with each task entry updated by the later task results
\* of the same id; a task result that arrives before any checkpoint, or
\* whose id matches no entry of the held checkpoint, changes nothing; a
\* later checkpoint event replaces the held checkpoint entirely.
C25_CheckpointMerge ==
    /\ checkpoint = MergedCheckpoint(events)
    /\ events # <<>> =>
          LET last == events[Len(events)]
              before == MergedCheckpoint(SubSeq(events, 1, Len(events) - 1))
          IN  /\ (/\ last.kind = "task_result"
                  /\ \/ before.none
                     \/ \A i \in DOMAIN before.tasks :
                            before.tasks[i].id # last.payload.id)
                 => checkpoint = before
              /\ last.kind = "checkpoint" => checkpoint = last.payload

\* a checkpoint with two entries was followed by two results for its second
\* entry: the entry carries the later result and keeps its name, the first
\* entry is as delivered
C25_Witness ==
    /\ Len(events) = 3
    /\ events[1].kind = "checkpoint"
    /\ Len(events[1].payload.tasks) = 2
    /\ events[2].kind = "task_result" /\ events[3].kind = "task_result"
    /\ events[2].payload.id = events[1].payload.tasks[2].id
    /\ events[3].payload.id = events[2].payload.id
    /\ events[3].payload.result # events[2].payload.result
    /\ checkpoint.tasks[2] = [id |-> events[3].payload.id,
                              name |-> events[1].payload.tasks[2].name,
                              result |-> events[3].payload.result]
    /\ checkpoint.tasks[1] = events[1].payload.tasks[1]

\* C26: over all attempts of a run the pipeline is invoked at most
\* MAX_RETRY_ATTEMPTS times: every claim of a run hands out the next attempt
\* number, only attempts numbered 1 to MAX_RETRY_ATTEMPTS receive events or
\* an outcome of the pipeline, and an attempt numbered above that goes to
\* the error branch with the pipeline not invoked.
C26_PipelineAtMostThrice ==
    [][/\ \A r \in RunIds : attempts'[r] >= attempts[r]
       /\ \A t \in TaskIds :
            /\ (tasks[t].pc = "none" /\ tasks'[t].pc = "created") =>
                  /\ tasks'[t].attempt = attempts'[tasks'[t].run]
                  /\ tasks'[t].attempt = attempts[tasks'[t].run] + 1
            /\ (tasks[t].pc = "body" /\ tasks'[t].pc = "body"
                    /\ tasks'[t].checkpoint # tasks[t].checkpoint) =>
                  tasks[t].attempt \in 1..MAX_RETRY_ATTEMPTS
            /\ (tasks[t].pc = "body" /\ tasks'[t].pc = "write") =>
                  IF tasks[t].attempt \in 1..MAX_RETRY_ATTEMPTS
                  THEN tasks'[t].pipeline # "none"
                  ELSE /\ tasks'[t].pipeline = "none"
                       /\ tasks[t].checkpoint = 0
                       /\ tasks'[t].status = "error"]_vars

\* attempt MAX_RETRY_ATTEMPTS of a run ended with a retriable exception of
\* its pipeline and the next attempt of the run is in the error branch with
\* no pipeline outcome
C26_Witness ==
    \E t, u \in TaskIds :
        /\ tasks[t].run = tasks[u].run
        /\ tasks[t].attempt = MAX_RETRY_ATTEMPTS
        /\ tasks[t].pipeline = "retry"
        /\ tasks[u].attempt = MAX_RETRY_ATTEMPTS + 1
        /\ tasks[u].pc = "write"
        /\ tasks[u].pipeline = "none"
        /\ tasks[u].status = "error"

C28_DeleteErrorPropagates ==
    \A t \in TaskIds :
        (/\ Ended(t)
         /\ tasks[t].pipeline = "rollback"
         /\ tasks[t].status = "rollback"
         /\ ~tasks[t].wrote /\ ~tasks[t].ignored
         /\ ~tasks[t].cancelReq)
        => /\ tasks[t].outcome = "raised"
           /\ tasks[t].raised = "Other"

\* C29: once a claimed run has been handed to a worker task, the claim
\* scope of the run (the exit stack from Runs.next) is closed by that
\* worker only: no step of the scheduler loop closes the scope of a live
\* worker, also when the stats or sweep step of the iteration raises after
\* the dispatch.
C29_SchedulerNeverClosesScope ==
    [][\A t \in TaskIds :
          (Live(t) /\ tasks[t].exitOpen /\ ~tasks'[t].exitOpen)
          => (spc' = spc /\ tasks'[t].pc # tasks[t].pc)]_vars

\* C30: worker() returns a result only when a terminal branch ran to its
\* end: the result of an attempt whose pipeline ended has one of the
\* statuses success, timeout, rollback, interrupted, error, never "retry",
\* and no webhook is dispatched with the status "retry".
C30_ResultsAreTerminal ==
    /\ \A t \in TaskIds :
          (Ended(t) /\ tasks[t].outcome = "returned" /\ tasks[t].pipeline # "none")
          => tasks[t].status \in {"success", "timeout", "rollback",
                                  "interrupted", "error"}
    /\ \A t \in TaskIds : HookLive(t) => hooks[t].status # "retry"

\* C31: an attempt whose pipeline sequence drained never sets its run back
\* to pending: a failure of the store write of success that follows, also
\* one of a retriable kind, is not handled by the retriable branch, and the
\* pipeline that completed is not executed again.
C31_DrainedNeverRequeued ==
    [][\A t \in TaskIds :
          (/\ tasks[t].pc = "write"
           /\ tasks[t].pipeline = "success"
           /\ tasks'[t].wrote)
          => /\ tasks[t].status # "retry"
             /\ status'[tasks[t].run] # "pending"]_vars

\* C32: decode emits an event only when given an empty line, and an empty
\* line that arrives when no event, data, id or retry field line has been
\* received since the previously emitted event emits nothing: consecutive
\* blank lines never produce events.
C32_BlankLinesEmitNothing ==
    [][/\ sse'.emitted => lineKind' = "blank"
       /\ (lineKind' = "blank" /\ ~fieldSeen) => ~sse'.emitted]_vars

\* C36: after decode emits an event its buffered event type, data lines and
\* retry value are empty and the last event id is kept, so an emitted event
\* carries the last id accepted, which only an id line changes; an id value
\* with a NUL character, a retry value that is not an integer, and a line
\* starting with a colon leave the decoder as it was and emit nothing.
C36_EmitResetsAllButId ==
    [][/\ sse'.emitted =>
            /\ event' = <<>> /\ data' = <<>> /\ retry' = <<>>
            /\ last_event_id' = last_event_id
            /\ sse'.id = last_event_id
            /\ sse'.event = event /\ sse'.retry = retry
       /\ last_event_id' # last_event_id => lineKind' = "field"
       /\ lineKind' \in {"id_with_nul", "retry_not_int", "comment"} =>
            /\ UNCHANGED <<event, data, last_event_id, retry>>
            /\ ~sse'.emitted]_vars

\* an event with an event type, data, an id and a retry value was emitted:
\* the three buffers are empty and the id is still held
C36_Witness ==
    /\ sse.emitted
    /\ sse.event # <<>> /\ sse.data # <<>> /\ sse.retry # <<>> /\ sse.id # <<>>
    /\ event = <<>> /\ data = <<>> /\ retry = <<>>
    /\ last_event_id = sse.id


\* C33: when the plan holds k >= 1 sections and no step fails, the graph
\* ends with completed_sections holding the k planned sections, each written
\* once and in plan order.
WrittenSections(ss) == [i \in DOMAIN ss |-> [ss[i] EXCEPT !.content = TRUE]]

C33_AllSectionsCompleted ==
    (node = "END" /\ ~error) => completed_sections = WrittenSections(sections)

\* C34: at every moment an event stream holds at most one DONE item, and it
\* is the last item; a generator past its loop and its handler has yielded
\* it; a failure while processing one event appends an error item and
\* leaves the generator in its loop.
Count(items, x) == Cardinality({i \in DOMAIN items : items[i] = x})

C34_DoneOnceAndLast ==
    /\ [](/\ Count(out, "DONE") <= 1
          /\ \A i \in DOMAIN out : out[i] = "DONE" => i = Len(out)
          /\ pos \in {"finally", "closed"} =>
                 /\ out # <<>>
                 /\ out[Len(out)] = "DONE"
                 /\ Count(out, "DONE") = 1)
    /\ [][raisedIn' = "processing" =>
              /\ out' = Append(out, "error")
              /\ pos' = "loop"]_vars

C34_Witness ==
    /\ pos = "closed"
    /\ Len(out) >= 4
    /\ out[1] = "error" /\ out[2] = "event"
    /\ out[Len(out) - 1] = "error"
    /\ out[Len(out)] = "DONE"

\* C35: a feedback request whose session id the store does not hold is
\* answered with status 400 and detail "Invalid session", opens no stream
\* and leaves the store unchanged.
C35_UnknownSessionIs400 ==
    [][(/\ request'.endpoint = "feedback"
        /\ request'.session_id \notin graphs
        /\ <<request, response>>' # <<request, response>>) =>
           /\ response' = InvalidSession
           /\ pos' # "loop"
           /\ graphs' = graphs]_vars

====
